---- MODULE Spec2Model ----
(***************************************************************************)
(* nvblox/evaluation/replica/replica_reconstruction.py                     *)
(*                                                                         *)
(* The driver replica_reconstruction() and the script's __main__ block,    *)
(* one action per statement.  The file system, the child process and the   *)
(* lines written to standard output are part of the state.  The three      *)
(* helpers of the sibling module `replica` are not in the source tree and  *)
(* are modelled from the specification's description of them.              *)
(***************************************************************************)
EXTENDS Naturals, Sequences, FiniteSets, TLC

(***************************************************************************)
(* Python values.  Every value is a record, so that values of different    *)
(* Python types compare unequal instead of being incomparable.             *)
(***************************************************************************)
None == [none |-> TRUE]

Unbound == [unbound |-> TRUE]

\* pathlib.Path: the tuple of its components (Path.parts); an absolute path
\* starts with the anchor "/".
Path(parts) == [parts |-> parts]

\* output_dir / 'file name': Path.__truediv__ with a one-component relative name.
Truediv(p, name) == Path(Append(p.parts, name))

\* Path.parent
Parent(p) == Path(SubSeq(p.parts, 1, Len(p.parts) - 1))

\* Path.name
Name(p) == p.parts[Len(p.parts)]

RECURSIVE JoinParts(_)
JoinParts(s) ==
    IF Len(s) = 0 THEN ""
    ELSE IF Len(s) = 1 THEN s[1]
    ELSE JoinParts(SubSeq(s, 1, Len(s) - 1)) \o "/" \o s[Len(s)]

\* f"{path}": str(Path), the components joined by "/" after the anchor.
Str(p) ==
    IF Len(p.parts) = 0 THEN "."
    ELSE IF p.parts[1] = "/" THEN "/" \o JoinParts(Tail(p.parts))
    ELSE JoinParts(p.parts)

(***************************************************************************)
(* Bounds and the finite universe of inputs.                               *)
(***************************************************************************)
MaxCalls == 2

DatasetPaths == { Path(<<"data", "office0">>), Path(<<"/", "mnt", "room0">>) }

OutputRoots == { None, Path(<<"out">>) }

SuppliedBinaries == { Path(<<"/", "opt", "fuse_replica">>), Path(<<"bin", "fuse">>) }

ExitCodes == {0, 1}

MeshFileName == "reconstructed_mesh.ply"

EsdfFileName == "reconstructed_esdf.ply"

mesh_output_path_flag == "--mesh_output_path"

esdf_output_path_flag == "--esdf_output_path"

(***************************************************************************)
(* The collaborator module `replica` (not part of the source tree).        *)
(***************************************************************************)
\* replica.get_dataset_name_from_dataset_root_path: the identifier derived
\* from the dataset root path, its final component.
get_dataset_name_from_dataset_root_path(p) == Name(p)

\* replica.get_default_fuse_replica_binary_path: the standard build-output location.
get_default_fuse_replica_binary_path ==
    Path(<<"/", "nvblox", "build", "executables", "fuse_replica">>)

\* the fixed default output root, relative to the tool's own location
DefaultOutputRoot == Path(<<"/", "nvblox", "evaluation", "replica", "output">>)

\* replica.get_output_dir: the dataset-named subdirectory of the output root.
get_output_dir(name, root) ==
    Truediv(IF root = None THEN DefaultOutputRoot ELSE root, name)

BinaryPaths == SuppliedBinaries \cup {get_default_fuse_replica_binary_path}

OutputDirs ==
    { get_output_dir(get_dataset_name_from_dataset_root_path(d), r) :
        d \in DatasetPaths, r \in OutputRoots }

PathUniverse ==
    DatasetPaths \cup (OutputRoots \ {None}) \cup BinaryPaths \cup OutputDirs
    \cup { Truediv(o, f) : o \in OutputDirs, f \in {MeshFileName, EsdfFileName} }

\* Path(string), as argparse's type=Path builds it: the inverse of Str.
PathFromStr(s) == CHOOSE p \in PathUniverse : Str(p) = s

(***************************************************************************)
(* argparse (lines 78-89): one required positional of type Path and two    *)
(* optional flags of type Path that default to None.                       *)
(***************************************************************************)
EmptyNamespace ==
    [ dataset_path |-> Unbound, output_root_path |-> None,
      fuse_replica_binary_path |-> None, error |-> FALSE ]

RECURSIVE ParseTokens(_, _)
ParseTokens(toks, ns) ==
    IF ns.error THEN ns
    ELSE IF toks = <<>> THEN [ns EXCEPT !.error = (ns.dataset_path = Unbound)]
    ELSE IF Head(toks) = "--output_root_path" THEN
        IF Len(toks) < 2 THEN [ns EXCEPT !.error = TRUE]
        ELSE ParseTokens(Tail(Tail(toks)),
                         [ns EXCEPT !.output_root_path = PathFromStr(toks[2])])
    ELSE IF Head(toks) = "--fuse_replica_binary_path" THEN
        IF Len(toks) < 2 THEN [ns EXCEPT !.error = TRUE]
        ELSE ParseTokens(Tail(Tail(toks)),
                         [ns EXCEPT !.fuse_replica_binary_path = PathFromStr(toks[2])])
    ELSE IF ns.dataset_path # Unbound THEN [ns EXCEPT !.error = TRUE]
    ELSE ParseTokens(Tail(toks), [ns EXCEPT !.dataset_path = PathFromStr(Head(toks))])

\* parser.parse_args()
parse_args(toks) == ParseTokens(toks, EmptyNamespace)

\* the command lines tried
Argvs ==
    { <<>> }
    \cup { <<Str(d)>> : d \in DatasetPaths }
    \cup { <<Str(d), "--output_root_path">> : d \in DatasetPaths }
    \cup { <<Str(d), "--output_root_path", Str(o)>> :
             d \in DatasetPaths, o \in OutputRoots \ {None} }
    \cup { <<Str(d), "--fuse_replica_binary_path", Str(b)>> :
             d \in DatasetPaths, b \in SuppliedBinaries }
    \cup { <<"--fuse_replica_binary_path", Str(b), Str(d), "--output_root_path", Str(o)>> :
             d \in DatasetPaths, b \in SuppliedBinaries, o \in OutputRoots \ {None} }

(***************************************************************************)
(* State.                                                                  *)
(***************************************************************************)
VARIABLES
    main_pc,                   \* "parse", "call", "in_call", "exited"; "import" when the
                               \* module is imported and the driver called directly
    argv,                      \* sys.argv[1:]
    args,                      \* the parsed namespace
    exit_status,               \* the script's exit status, Unbound while it runs
    pc,                        \* the driver's position: "idle", "l50" .. "l73", "wait", "done"
    dataset_path,              \* parameters and locals of replica_reconstruction
    output_root_path,
    fuse_replica_binary_path,
    dataset_name,
    output_dir,
    reconstructed_mesh_path,
    reconstructed_esdf_path,
    fs,                        \* what each binary path is: "absent", "dir", "file", "exe"
    dirs,                      \* output directories made by replica.get_output_dir
    outfiles,                  \* files written by child processes
    child,                     \* the process started by subprocess.run
    trace,                     \* what the current call has done so far, in order
    outcome,                   \* how the current call ended, Pending while it runs
    call,                      \* the arguments the caller passed to the current call
    dirs_at_entry,             \* the directories that existed when the call began
    history,                   \* the calls that returned
    ncalls

params == <<dataset_path, output_root_path, fuse_replica_binary_path>>

locals == <<dataset_name, output_dir, reconstructed_mesh_path, reconstructed_esdf_path>>

script == <<main_pc, argv, args, exit_status>>

world == <<fs, dirs, outfiles>>

ghost == <<call, dirs_at_entry>>

vars ==
    <<script, pc, params, locals, world, child, trace, outcome, ghost, history, ncalls>>

FileKinds == {"absent", "dir", "file", "exe"}

\* the file systems tried: the default binary built or not, the first supplied
\* path an executable or a plain file, the second a directory or nothing
FileSystems ==
    { f \in [BinaryPaths -> FileKinds] :
        /\ f[get_default_fuse_replica_binary_path] \in {"absent", "exe"}
        /\ f[Path(<<"/", "opt", "fuse_replica">>)] \in {"exe", "file"}
        /\ f[Path(<<"bin", "fuse">>)] \in {"absent", "dir"} }

Pending == [kind |-> "pending"]

NoChild == [state |-> "none", args |-> <<>>, rc |-> 0, wrote |-> {}]

Init ==
    /\ \/ main_pc = "parse" /\ argv \in Argvs
       \/ main_pc = "import" /\ argv = <<>>
    /\ args = Unbound
    /\ exit_status = Unbound
    /\ pc = "idle"
    /\ dataset_path = Unbound
    /\ output_root_path = Unbound
    /\ fuse_replica_binary_path = Unbound
    /\ dataset_name = Unbound
    /\ output_dir = Unbound
    /\ reconstructed_mesh_path = Unbound
    /\ reconstructed_esdf_path = Unbound
    /\ fs \in FileSystems
    /\ dirs = {}
    /\ outfiles = {}
    /\ child = NoChild
    /\ trace = <<>>
    /\ outcome = Pending
    /\ call = Unbound
    /\ dirs_at_entry = {}
    /\ history = {}
    /\ ncalls = 0

(***************************************************************************)
(* replica_reconstruction, lines 28-73.                                    *)
(***************************************************************************)
Raised(exc, msg) == [kind |-> "raise", exc |-> exc, msg |-> msg]

Returned(value) == [kind |-> "return", value |-> value]

\* the call: parameters bound, nothing else yet
Enter(d, o, b) ==
    /\ pc' = "l50"
    /\ dataset_path' = d
    /\ output_root_path' = o
    /\ fuse_replica_binary_path' = b
    /\ dataset_name' = Unbound
    /\ output_dir' = Unbound
    /\ reconstructed_mesh_path' = Unbound
    /\ reconstructed_esdf_path' = Unbound
    /\ child' = NoChild
    /\ trace' = <<>>
    /\ outcome' = Pending
    /\ call' = [dataset_path |-> d, output_root_path |-> o,
                fuse_replica_binary_path |-> b]
    /\ dirs_at_entry' = dirs
    /\ ncalls' = ncalls + 1
    /\ UNCHANGED <<world, history>>

\* Path.is_file()
is_file(p) == fs[p] \in {"file", "exe"}

\* lines 50-51 with line 58 moved up: the output directory is made first
GetDatasetNameAndOutputDir ==
    /\ pc = "l50"
    /\ trace' = trace \o
          << [op |-> "get_dataset_name", path |-> dataset_path],
             [op |-> "get_output_dir",
              name |-> get_dataset_name_from_dataset_root_path(dataset_path),
              root |-> output_root_path] >>
    /\ dataset_name' = get_dataset_name_from_dataset_root_path(dataset_path)
    /\ dirs' = dirs \cup
          {get_output_dir(get_dataset_name_from_dataset_root_path(dataset_path),
                          output_root_path)}
    /\ pc' = "l53"
    /\ UNCHANGED <<script, params, output_dir, reconstructed_mesh_path,
                   reconstructed_esdf_path, fs, outfiles, child, outcome, ghost,
                   history, ncalls>>

\* lines 50-51; the helper may fail on a malformed dataset path, and its
\* exception propagates
GetDatasetName ==
    /\ pc = "l50"
    /\ trace' = Append(trace, [op |-> "get_dataset_name", path |-> dataset_path])
    /\ \/ /\ dataset_name' = get_dataset_name_from_dataset_root_path(dataset_path)
          /\ pc' = "l53"
          /\ UNCHANGED outcome
       \/ /\ outcome' = Raised("CollaboratorError", "get_dataset_name_from_dataset_root_path")
          /\ pc' = "done"
          /\ UNCHANGED dataset_name
    /\ UNCHANGED <<script, params, output_dir, reconstructed_mesh_path,
                   reconstructed_esdf_path, world, child, ghost, history, ncalls>>

\* lines 53-54 falling back to the default when the given path is no file
ResolveBinaryWithFallback ==
    /\ pc = "l53"
    /\ IF fuse_replica_binary_path = None \/ ~is_file(fuse_replica_binary_path)
       THEN /\ fuse_replica_binary_path' = get_default_fuse_replica_binary_path
            /\ trace' = Append(trace, [op |-> "get_default_binary"])
       ELSE UNCHANGED <<fuse_replica_binary_path, trace>>
    /\ pc' = "l55"
    /\ UNCHANGED <<script, dataset_path, output_root_path, locals, world, child,
                   outcome, ghost, history, ncalls>>

\* lines 53-54
ResolveBinary ==
    /\ pc = "l53"
    /\ IF fuse_replica_binary_path = None
       THEN /\ fuse_replica_binary_path' = get_default_fuse_replica_binary_path
            /\ trace' = Append(trace, [op |-> "get_default_binary"])
       ELSE UNCHANGED <<fuse_replica_binary_path, trace>>
    /\ pc' = "l55"
    /\ UNCHANGED <<script, dataset_path, output_root_path, locals, world, child,
                   outcome, ghost, history, ncalls>>

\* lines 55-56 without the raise: the check is made and its result ignored
CheckBinaryIgnored ==
    /\ pc = "l55"
    /\ trace' = Append(trace, [op |-> "is_file", path |-> fuse_replica_binary_path,
                               result |-> is_file(fuse_replica_binary_path)])
    /\ pc' = "l58"
    /\ UNCHANGED <<script, params, locals, world, child, outcome, ghost, history, ncalls>>

\* lines 55-56
CheckBinary ==
    /\ pc = "l55"
    /\ trace' = Append(trace, [op |-> "is_file", path |-> fuse_replica_binary_path,
                               result |-> is_file(fuse_replica_binary_path)])
    /\ IF ~is_file(fuse_replica_binary_path)
       THEN /\ outcome' = Raised("Exception",
                                 "Cant find binary at:" \o Str(fuse_replica_binary_path))
            /\ pc' = "done"
       ELSE /\ pc' = "l58"
            /\ UNCHANGED outcome
    /\ UNCHANGED <<script, params, locals, world, child, ghost, history, ncalls>>

\* line 58; the helper makes the directory, and its failure to do so propagates
GetOutputDir ==
    /\ pc = "l58"
    /\ trace' = Append(trace, [op |-> "get_output_dir", name |-> dataset_name,
                               root |-> output_root_path])
    /\ \/ /\ output_dir' = get_output_dir(dataset_name, output_root_path)
          /\ dirs' = dirs \cup {get_output_dir(dataset_name, output_root_path)}
          /\ pc' = "l59"
          /\ UNCHANGED outcome
       \/ /\ outcome' = Raised("CollaboratorError", "get_output_dir")
          /\ pc' = "done"
          /\ UNCHANGED <<output_dir, dirs>>
    /\ UNCHANGED <<script, params, dataset_name, reconstructed_mesh_path,
                   reconstructed_esdf_path, fs, outfiles, child, ghost, history, ncalls>>

\* line 59
MeshPath(dir) == Truediv(dir, MeshFileName)

\* line 60 with line 59's file name
EsdfPathNamedAsMesh(dir) == Truediv(dir, MeshFileName)

\* line 60
EsdfPath(dir) == Truediv(dir, EsdfFileName)

\* lines 59-60
ComputeOutputPaths ==
    /\ pc = "l59"
    /\ reconstructed_mesh_path' = MeshPath(output_dir)
    /\ reconstructed_esdf_path' = EsdfPath(output_dir)
    /\ pc' = "l63"
    /\ UNCHANGED <<script, params, dataset_name, output_dir, world, child, trace,
                   outcome, ghost, history, ncalls>>

\* print(line) at position `at`, continuing at `next`
StdoutPrint(at, line, next) ==
    /\ pc = at
    /\ trace' = Append(trace, [op |-> "print", line |-> line])
    /\ pc' = next
    /\ UNCHANGED <<script, params, locals, world, child, outcome, ghost, history, ncalls>>

\* line 63
PrintBinary ==
    StdoutPrint("l63", "Running executable at:\t" \o Str(fuse_replica_binary_path), "l64")

\* line 64
PrintDataset ==
    StdoutPrint("l64", "On the dataset at:\t" \o Str(dataset_path), "l65")

\* line 65
PrintMesh ==
    StdoutPrint("l65", "Outputting mesh at:\t" \o Str(reconstructed_mesh_path), "l66")

\* line 66
PrintEsdf ==
    StdoutPrint("l66", "Outputting esdf at:\t" \o Str(reconstructed_esdf_path), "l69")

\* the argument list with the dataset path last
CommandDatasetLast(binary, dataset, mesh, esdf) ==
    << Str(binary), mesh_output_path_flag, Str(mesh),
       esdf_output_path_flag, Str(esdf), Str(dataset) >>

\* lines 69-71: the argument list handed to subprocess.run
Command(binary, dataset, mesh, esdf) ==
    << Str(binary), Str(dataset), mesh_output_path_flag, Str(mesh),
       esdf_output_path_flag, Str(esdf) >>

\* whether the operating system can execute the program named by a command
Executable(cmd) ==
    /\ Len(cmd) > 0
    /\ \E p \in BinaryPaths : Str(p) = cmd[1] /\ fs[p] = "exe"

\* lines 69-71, first half: subprocess.run starts the child, or raises when the
\* file cannot be executed
LaunchSubprocess ==
    /\ pc = "l69"
    /\ LET cmd == Command(fuse_replica_binary_path, dataset_path,
                          reconstructed_mesh_path, reconstructed_esdf_path)
       IN  /\ trace' = Append(trace, [op |-> "run", args |-> cmd,
                                      launched |-> Executable(cmd)])
           /\ IF Executable(cmd)
              THEN /\ child' = [NoChild EXCEPT !.state = "running", !.args = cmd]
                   /\ pc' = "wait"
                   /\ UNCHANGED outcome
              ELSE /\ outcome' = Raised("OSError", cmd[1])
                   /\ pc' = "done"
                   /\ UNCHANGED child
    /\ UNCHANGED <<script, params, locals, world, ghost, history, ncalls>>

\* the files the child may write: the values of its two output flags
ChildTargets(cmd) ==
    { p \in PathUniverse :
        \E i \in 1..(Len(cmd) - 1) :
            /\ cmd[i] \in {mesh_output_path_flag, esdf_output_path_flag}
            /\ cmd[i + 1] = Str(p) }

\* the external binary runs and terminates: any exit status, any of its
\* output files written or not
ChildExit ==
    /\ child.state = "running"
    /\ \E rc \in ExitCodes, wrote \in SUBSET ChildTargets(child.args) :
        /\ child' = [child EXCEPT !.state = "exited", !.rc = rc, !.wrote = wrote]
        /\ outfiles' = outfiles \cup wrote
        /\ trace' = Append(trace, [op |-> "child_exit", rc |-> rc])
    /\ UNCHANGED <<script, pc, params, locals, fs, dirs, outcome, ghost, history, ncalls>>

\* subprocess.Popen in place of subprocess.run: the child is not waited for
SubprocessNotAwaited ==
    /\ pc = "wait"
    /\ pc' = "l73"
    /\ UNCHANGED <<script, params, locals, world, child, trace, outcome, ghost, history, ncalls>>

\* subprocess.run(..., check=True): a non-zero exit status raises
SubprocessRunChecked ==
    /\ pc = "wait"
    /\ child.state = "exited"
    /\ IF child.rc = 0
       THEN pc' = "l73" /\ UNCHANGED outcome
       ELSE pc' = "done" /\ outcome' = Raised("CalledProcessError", child.args[1])
    /\ UNCHANGED <<script, params, locals, world, child, trace, ghost, history, ncalls>>

\* subprocess.run followed by a printed summary of the child's exit status
SubprocessRunThenSummary ==
    /\ pc = "wait"
    /\ child.state = "exited"
    /\ trace' = Append(trace, [op |-> "print",
                               line |-> IF child.rc = 0 THEN "Done" ELSE "Failed"])
    /\ pc' = "l73"
    /\ UNCHANGED <<script, params, locals, world, child, outcome, ghost, history, ncalls>>

\* lines 69-71, second half: subprocess.run returns once the child has
\* terminated; check is not set, so the exit status is dropped
SubprocessRunReturns ==
    /\ pc = "wait"
    /\ child.state = "exited"
    /\ pc' = "l73"
    /\ UNCHANGED <<script, params, locals, world, child, trace, outcome, ghost, history, ncalls>>

\* line 73 returning a path only where the child has produced the file
ReturnValueIfWritten ==
    << IF reconstructed_mesh_path \in outfiles THEN reconstructed_mesh_path ELSE None,
       IF reconstructed_esdf_path \in outfiles THEN reconstructed_esdf_path ELSE None >>

\* line 73: the value returned
ReturnValue == <<reconstructed_mesh_path, reconstructed_esdf_path>>

\* line 73
Return ==
    /\ pc = "l73"
    /\ outcome' = Returned(ReturnValue)
    /\ history' = history \cup
          {[ dataset |-> dataset_path, root |-> output_root_path,
             binary |-> fuse_replica_binary_path, rc |-> child.rc,
             value |-> ReturnValue ]}
    /\ pc' = "done"
    /\ UNCHANGED <<script, params, locals, world, child, trace, ghost, ncalls>>

(***************************************************************************)
(* Callers: the __main__ block (lines 76-93), and a program that imports   *)
(* the module and calls the driver repeatedly.                             *)
(***************************************************************************)
\* line 89; argparse exits with status 2 on a usage error
ParseArgs ==
    /\ main_pc = "parse"
    /\ LET ns == parse_args(argv)
       IN  IF ns.error
           THEN /\ main_pc' = "exited"
                /\ exit_status' = 2
                /\ UNCHANGED args
           ELSE /\ main_pc' = "call"
                /\ args' = ns
                /\ UNCHANGED exit_status
    /\ UNCHANGED <<argv, pc, params, locals, world, child, trace, outcome, ghost, history, ncalls>>

\* lines 91-93
MainCall ==
    /\ main_pc = "call"
    /\ pc = "idle"
    /\ main_pc' = "in_call"
    /\ Enter(args.dataset_path, args.output_root_path, args.fuse_replica_binary_path)
    /\ UNCHANGED <<argv, args, exit_status>>

\* the call wrapped in a try/except that swallows the exception
MainExitAlwaysZero ==
    /\ main_pc = "in_call"
    /\ pc = "done"
    /\ main_pc' = "exited"
    /\ exit_status' = 0
    /\ UNCHANGED <<argv, args, pc, params, locals, world, child, trace, outcome,
                   ghost, history, ncalls>>

\* the end of the script: status 0, or 1 with a traceback when the call raised
MainExit ==
    /\ main_pc = "in_call"
    /\ pc = "done"
    /\ main_pc' = "exited"
    /\ exit_status' = IF outcome.kind = "return" THEN 0 ELSE 1
    /\ UNCHANGED <<argv, args, pc, params, locals, world, child, trace, outcome,
                   ghost, history, ncalls>>

\* a call from importing code, with any arguments
ImportCall ==
    /\ main_pc = "import"
    /\ pc \in {"idle", "done"}
    /\ ncalls < MaxCalls
    /\ \E d \in DatasetPaths, o \in OutputRoots, b \in SuppliedBinaries \cup {None} :
          Enter(d, o, b)
    /\ UNCHANGED script

Next ==
    \/ ParseArgs
    \/ MainCall
    \/ MainExit
    \/ ImportCall
    \/ GetDatasetName
    \/ ResolveBinary
    \/ CheckBinary
    \/ GetOutputDir
    \/ ComputeOutputPaths
    \/ PrintBinary
    \/ PrintDataset
    \/ PrintMesh
    \/ PrintEsdf
    \/ LaunchSubprocess
    \/ ChildExit
    \/ SubprocessRunReturns
    \/ Return

Spec == Init /\ [][Next]_vars

(***************************************************************************)
(* Properties.                                                             *)
(***************************************************************************)
\* the binary path a call works with: the caller's, or the default when omitted
ResolvedBinary ==
    IF call.fuse_replica_binary_path = None
    THEN get_default_fuse_replica_binary_path
    ELSE call.fuse_replica_binary_path

\* positions in the current call's trace of the events named op
Events(op) == { i \in DOMAIN trace : trace[i].op = op }

\* positions at which a process was actually started
Launches == { i \in Events("run") : trace[i].launched }

\* the current call got past lines 50-51
NameDerived ==
    /\ pc \notin {"idle", "l50"}
    /\ outcome # Raised("CollaboratorError", "get_dataset_name_from_dataset_root_path")

MissingExecutable == Raised("Exception", "Cant find binary at:" \o Str(ResolvedBinary))

\* C1: a call whose dataset name was derived and whose resolved binary path is
\* not a regular file ends in the missing-executable error with no process
\* started or attempted; and every attempt to start a process comes after an
\* is_file check that succeeded on exactly the path that is started.
C1_MissingBinaryRaisesBeforeLaunch ==
    /\ (pc = "done" /\ NameDerived /\ ~is_file(ResolvedBinary))
         => /\ outcome = MissingExecutable
            /\ Events("run") = {}
            /\ child.state = "none"
    /\ \A i \in Events("run") :
         \E j \in Events("is_file") :
            /\ j < i
            /\ trace[j].result
            /\ Str(trace[j].path) = trace[i].args[1]

C1_Witness ==
    /\ pc = "done"
    /\ NameDerived
    /\ call.fuse_replica_binary_path = None
    /\ ~is_file(ResolvedBinary)
    /\ outcome = MissingExecutable

\* C2: a call whose child exited with a non-zero status and wrote no file
\* does not raise: it returns the (mesh path, esdf path) pair, the same pair
\* returned by every call with the same dataset and output root whose child
\* exited with status zero.
C2_NonZeroExitStillReturns ==
    (pc = "done" /\ child.state = "exited" /\ child.rc # 0 /\ child.wrote = {})
      => /\ outcome.kind = "return"
         /\ outcome.value = <<reconstructed_mesh_path, reconstructed_esdf_path>>
         /\ reconstructed_mesh_path \in PathUniverse
         /\ reconstructed_esdf_path \in PathUniverse
         /\ \A h \in history :
              (h.dataset = call.dataset_path /\ h.root = call.output_root_path /\ h.rc = 0)
                => h.value = outcome.value

C2_Witness ==
    /\ pc = "done"
    /\ child.state = "exited"
    /\ child.rc # 0
    /\ child.wrote = {}
    /\ outcome.kind = "return"
    /\ \E h \in history :
         h.dataset = call.dataset_path /\ h.root = call.output_root_path /\ h.rc = 0

\* C3: whenever a call starts the subprocess, the command is the resolved
\* binary path followed by exactly five arguments: the caller's dataset path,
\* --mesh_output_path, the mesh path, --esdf_output_path, the esdf path; and the
\* mesh and esdf paths in the command are the two paths the call returns.
C3_CommandLine ==
    \A i \in Events("run") :
        LET cmd == trace[i].args
        IN  /\ Len(cmd) = 6
            /\ cmd[1] = Str(ResolvedBinary)
            /\ cmd[2] = Str(call.dataset_path)
            /\ cmd[3] = "--mesh_output_path"
            /\ cmd[5] = "--esdf_output_path"
            /\ cmd[4] = Str(reconstructed_mesh_path)
            /\ cmd[6] = Str(reconstructed_esdf_path)
            /\ trace[i].launched => child.args = cmd
            /\ outcome.kind = "return"
                 => /\ cmd[4] = Str(outcome.value[1])
                    /\ cmd[6] = Str(outcome.value[2])

C3_Witness ==
    /\ outcome.kind = "return"
    /\ Launches # {}
    /\ call.output_root_path # None
    /\ call.fuse_replica_binary_path # None

\* C4: the two paths of a returned pair differ, the first is named
\* reconstructed_mesh.ply and the second reconstructed_esdf.ply, and both have
\* the same parent: the output directory resolved from the dataset name and
\* output_root_path.
C4_ReturnedPathsShape ==
    outcome.kind = "return" =>
        LET mesh == outcome.value[1]
            esdf == outcome.value[2]
        IN  /\ mesh # esdf
            /\ Name(mesh) = "reconstructed_mesh.ply"
            /\ Name(esdf) = "reconstructed_esdf.ply"
            /\ Parent(mesh) = Parent(esdf)
            /\ Parent(mesh) = output_dir
            /\ \E i \in Events("get_output_dir") :
                 /\ trace[i].name = get_dataset_name_from_dataset_root_path(call.dataset_path)
                 /\ trace[i].root = call.output_root_path
                 /\ output_dir = get_output_dir(trace[i].name, trace[i].root)

C4_Witness ==
    /\ outcome.kind = "return"
    /\ call.output_root_path = None
    /\ Parent(outcome.value[1]) = Truediv(DefaultOutputRoot, Name(call.dataset_path))

\* C5: the returned pair depends on dataset_path and output_root_path only:
\* any two calls that returned, with the same dataset_path and output_root_path,
\* returned the same pair, whatever binary ran and however its child ended.
C5_ReturnedPathsDeterministic ==
    \A g, h \in history :
        (g.dataset = h.dataset /\ g.root = h.root) => g.value = h.value

C5_Witness ==
    \E g, h \in history :
        /\ g.dataset = h.dataset
        /\ g.root = h.root
        /\ g.binary # h.binary
        /\ g.rc # h.rc
        /\ g.value = h.value
        /\ g.value[1] \in outfiles
        /\ g.value[2] \notin outfiles

\* C6: a call starts at most one process; a call that has returned started
\* exactly one, and that process had terminated before the return; the driver
\* is inside subprocess.run whenever its child is running.
C6_OneProcessAwaited ==
    /\ Cardinality(Launches) <= 1
    /\ Cardinality(Events("run")) <= 1
    /\ child.state = "running" => pc = "wait"
    /\ pc \in {"l73", "done"} /\ outcome.kind # "raise" =>
          /\ Cardinality(Launches) = 1
          /\ child.state = "exited"
          /\ \E i \in Launches, j \in Events("child_exit") : i < j

C6_Witness ==
    /\ outcome.kind = "return"
    /\ Cardinality(Launches) = 1
    /\ child.state = "exited"
    /\ ncalls = 2

\* the four progress lines of a call, in the order of lines 63-66
ProgressLines ==
    << "Running executable at:\t" \o Str(ResolvedBinary),
       "On the dataset at:\t" \o Str(call.dataset_path),
       "Outputting mesh at:\t" \o Str(reconstructed_mesh_path),
       "Outputting esdf at:\t" \o Str(reconstructed_esdf_path) >>

IsPrint(e) == e.op = "print"

\* the lines printed by the first n events of the current call
PrintedBefore(n) ==
    LET prints == SelectSeq(SubSeq(trace, 1, n), IsPrint)
    IN  [k \in DOMAIN prints |-> prints[k].line]

Flags == {"--output_root_path", "--fuse_replica_binary_path"}

\* the value following flag on the command line, None when the flag is absent
FlagValue(flag) ==
    IF \E i \in 1..(Len(argv) - 1) : argv[i] = flag
    THEN PathFromStr(argv[(CHOOSE i \in 1..(Len(argv) - 1) : argv[i] = flag) + 1])
    ELSE None

\* C7: once the script has exited after a successful parse, the driver was
\* called exactly once, with the three parsed arguments (an absent flag giving
\* None); the exit status is non-zero if the call raised, and zero if it
\* returned, in which case the four progress lines had been printed.  The
\* script never calls the driver a second time.
C7_MainCallsOnce ==
    /\ main_pc # "import" => ncalls <= 1
    /\ main_pc \in {"parse", "call"} => ncalls = 0
    /\ (main_pc = "exited" /\ args # Unbound) =>
          /\ ncalls = 1
          /\ call = [ dataset_path |-> args.dataset_path,
                      output_root_path |-> args.output_root_path,
                      fuse_replica_binary_path |-> args.fuse_replica_binary_path ]
          /\ call.output_root_path = FlagValue("--output_root_path")
          /\ call.fuse_replica_binary_path = FlagValue("--fuse_replica_binary_path")
          /\ \E i \in DOMAIN argv :
                /\ argv[i] = Str(call.dataset_path)
                /\ (i = 1 \/ argv[i - 1] \notin Flags)
          /\ outcome.kind \in {"raise", "return"}
          /\ outcome.kind = "raise" => exit_status # 0
          /\ outcome.kind = "return" =>
                /\ exit_status = 0
                /\ PrintedBefore(Len(trace)) = ProgressLines

C7_Witness ==
    /\ main_pc = "exited"
    /\ args # Unbound
    /\ outcome = MissingExecutable
    /\ exit_status = 1
    /\ args.output_root_path = None
    /\ args.fuse_replica_binary_path = Path(<<"bin", "fuse">>)

\* C8: the default-binary lookup is made exactly when the caller omitted
\* fuse_replica_binary_path; a path the caller supplied is the one checked
\* with is_file and the one started, and when it is no regular file the call
\* fails with the missing-executable error instead of using the default.
C8_SuppliedBinaryNeverReplaced ==
    /\ Events("get_default_binary") # {} => call.fuse_replica_binary_path = None
    /\ (pc \notin {"idle", "l50", "l53"} /\ NameDerived /\ call.fuse_replica_binary_path = None)
          => Cardinality(Events("get_default_binary")) = 1
    /\ call # Unbound /\ call.fuse_replica_binary_path # None =>
          /\ \A i \in Events("is_file") : trace[i].path = call.fuse_replica_binary_path
          /\ \A i \in Events("run") : trace[i].args[1] = Str(call.fuse_replica_binary_path)
          /\ (pc = "done" /\ NameDerived /\ ~is_file(call.fuse_replica_binary_path))
                => outcome = Raised("Exception", "Cant find binary at:"
                                       \o Str(call.fuse_replica_binary_path))

C8_Witness ==
    /\ pc = "done"
    /\ call.fuse_replica_binary_path = Path(<<"bin", "fuse">>)
    /\ ~is_file(call.fuse_replica_binary_path)
    /\ is_file(get_default_fuse_replica_binary_path)
    /\ outcome.kind = "raise"
    /\ Events("is_file") # {}

\* C9: when a call starts the subprocess, exactly the four progress lines
\* (binary, dataset, mesh, esdf, in that order) have been printed before it,
\* and nothing is printed from then until the call ends.
C9_ProgressLinesBeforeLaunch ==
    \A i \in Events("run") :
        /\ PrintedBefore(i - 1) = ProgressLines
        /\ \A j \in Events("print") : j < i

C9_Witness ==
    /\ outcome.kind = "return"
    /\ Launches # {}
    /\ Events("child_exit") # {}
    /\ Cardinality(Events("print")) = 4

\* C10: a call that ended in the missing-executable error never called
\* replica.get_output_dir: no directory was made, no line was printed, and its
\* only collaborator calls were the dataset-name derivation and, when the
\* binary path was omitted, the default-binary lookup, before the is_file check.
C10_MissingBinaryTouchesNothing ==
    (pc = "done" /\ outcome = MissingExecutable) =>
        /\ Events("get_output_dir") = {}
        /\ Events("print") = {}
        /\ Events("run") = {}
        /\ dirs = dirs_at_entry
        /\ output_dir = Unbound
        /\ [k \in DOMAIN trace |-> trace[k].op] =
              IF call.fuse_replica_binary_path = None
              THEN <<"get_dataset_name", "get_default_binary", "is_file">>
              ELSE <<"get_dataset_name", "is_file">>

C10_Witness ==
    /\ pc = "done"
    /\ outcome = MissingExecutable
    /\ call.fuse_replica_binary_path = None
    /\ ncalls = 2
    /\ dirs # {}

====
